---- MODULE Spec2Model ----
(***************************************************************************)
(* The paginated player list of nba-glass: the PlayerList component        *)
(* (its offset state cell, the query keyed by (limit, offset), the three   *)
(* views and the two pagination handlers), the query client configured by  *)
(* the application shell (retry: 1), and the HTTP wrapper getAllPlayers.   *)
(*                                                                         *)
(* The data layer is @tanstack/react-query: one query per key, holding     *)
(* status / data / error / fetchStatus / failureCount, observed by the     *)
(* component while its key is the current one.  A query whose key is       *)
(* superseded keeps its in-flight transport attempt (axios is not given    *)
(* the abort signal) but has its retry cancelled; an unobserved idle       *)
(* query may be garbage-collected.                                         *)
(***************************************************************************)
EXTENDS Integers, FiniteSets, Sequences, Bags, TLC

\* ------------------------------------------------------------- bounds
MaxLimit == 2
MaxInitialOffset == 1
MaxTotal == 2
\* the longest player name, in characters
MaxNameLen == 2

\* retry: 2
RetryTwice == 1 + 1

\* retry: 1 in the query client's default options
Retry == 1

Max(a, b) == IF a >= b THEN a ELSE b
Min(a, b) == IF a <= b THEN a ELSE b

Limits == 0..MaxLimit
InitialOffsets == 0..MaxInitialOffset
Totals == 0..MaxTotal
\* every offset a handler can produce from a reachable state, and one step
\* of limit beyond on either side
Offsets == (0 - MaxLimit)..(Max(MaxInitialOffset, MaxTotal) + MaxLimit)
ErrorMessages == {"Network Error", "Request failed with status code 500"}

\* limit, initialOffset  the props of the mounted PlayerList
\* failure               the message of the errors api.get rejects with
\* offset                the useState cell
\* cache                 the query client's query state, per key
\* retryer               per key: the phase of the fetch in progress (an
\*                       attempt in flight, or the delay before the retry)
\*                       and whether its retry is cancelled
\* inflight              the api.get calls awaiting their response
\* attempts              per key: the api.get calls made by the fetch in
\*                       progress
\* lastResolved          per key: the body of the last response the
\*                       transport returned for the cached query
\* lastEvent             the last click or fetch event
\* lastClick             the last click: the button and the offset before it
\* call                  the last call of a player-stats function of
\*                       playersApi, with its arguments
\* sent                  the GET request that call handed to api.get
VARIABLES limit, initialOffset, failure, offset, cache, retryer, inflight,
          attempts, lastResolved, lastEvent, lastClick, call, sent

vars == <<limit, initialOffset, failure, offset, cache, retryer, inflight,
          attempts, lastResolved, lastEvent, lastClick, call, sent>>

\* the state of the player list
listVars == <<limit, initialOffset, failure, offset, cache, retryer, inflight,
              attempts, lastResolved, lastEvent, lastClick>>
\* the state of the player-stats calls
apiVars == <<call, sent>>

\* the props of the mounted component and the way the transport fails in
\* this run (the message of the error axios rejects with)
props == <<limit, initialOffset, failure>>

\* ------------------------------------------------------- data layer
\* a key that leaves the offset out: every page shares one query
queryKeyShared(l, o) == <<"players", l, 0>>

\* queryKey: ['players', limit, offset]
queryKey(l, o) == <<"players", l, o>>

\* the keys the mounted component can ask for: its limit does not change
Keys == {queryKey(limit, o) : o \in Offsets}

\* the value of data before any response: undefined
NoData == [kind |-> "undefined"]
NoError == "none"

\* PlayerListResponse: the page the server returns for a request; count is
\* the size of the slice of a collection of `total` players
PageCount(l, o, total) == Max(0, Min(l, total - o))
PlayerListResponse(params, total) ==
  [kind |-> "page", total |-> total, offset |-> params.offset,
   limit |-> params.limit,
   count |-> PageCount(params.limit, params.offset, total)]

\* the bodies the server may answer a request with
Bodies(params) == {PlayerListResponse(params, t) : t \in Totals}

\* JavaScript truthiness of data (undefined is falsy, a response object truthy)
Truthy(d) == d.kind = "page"

\* a key with no query in the cache
NoQuery == [status |-> "none", data |-> NoData, error |-> NoError,
            fetchStatus |-> "idle", failureCount |-> 0,
            failureReason |-> NoError]
NoRetryer == [phase |-> "none", cancelled |-> FALSE]

\* playersApi.getAllPlayers({limit, offset}): GET /players with the params
getAllPlayers(params) == [path |-> "/players", params |-> params]

\* queryFn: () => playersApi.getAllPlayers({ limit, offset }), for query k
queryFn(k, l, o) == [key |-> k, request |-> getAllPlayers([limit |-> l, offset |-> o])]

\* no deduplication: every fetch asked starts a transport attempt
NeverDeduped(q) == FALSE

\* a fetch asked of a query that is already fetching joins that fetch
Deduped(q) == q.fetchStatus # "idle"

\* the query state at the start of a fetch: status resets to pending only
\* when the query holds no data
FetchState(q) ==
  [q EXCEPT !.status = IF q.data = NoData THEN "pending" ELSE q.status,
            !.error = IF q.data = NoData THEN NoError ELSE q.error,
            !.fetchStatus = "fetching", !.failureCount = 0,
            !.failureReason = NoError]

SuccessState(q, body) ==
  [status |-> "success", data |-> body, error |-> NoError,
   fetchStatus |-> "idle", failureCount |-> 0, failureReason |-> NoError]

ErrorState(q, msg) ==
  [q EXCEPT !.status = "error", !.error = msg, !.fetchStatus = "idle",
            !.failureCount = q.failureCount + 1, !.failureReason = msg]

\* shouldRetry of the retryer: failureCount < retry and the retry not cancelled
ShouldRetry(q, r) == q.failureCount < Retry /\ ~r.cancelled

\* ------------------------------------------------------- PlayerList
\* useQuery({queryKey: ['players', limit, offset], ...}): the component
\* reads the state of the query of the current key
query == cache[queryKey(limit, offset)]
data == query.data
\* loading taken to mean "no data yet"
isLoadingUntilData == ~Truthy(query.data)
isLoading == query.status = "pending"
isError == query.status = "error"
error == query.error

\* disabled={offset === 0}
PrevDisabled == offset = 0
\* the comparison off by one: > for >=
NextDisabledStrict == ~Truthy(data) \/ offset + limit > data.total

\* disabled={!data || offset + limit >= data.total}
NextDisabled == ~Truthy(data) \/ offset + limit >= data.total

\* the decrement without its floor of 0
handlePrevPageUnclamped == offset - limit

\* setOffset(Math.max(0, offset - limit))
handlePrevPage == Max(0, offset - limit)
\* the handler's guard off by one: <= for <
handleNextPageInclusive ==
  IF Truthy(data) /\ offset + limit <= data.total THEN offset + limit ELSE offset

\* the next page taken to start one past offset + limit
handleNextPageOffByOne ==
  IF Truthy(data) /\ offset + limit < data.total THEN offset + limit + 1 ELSE offset

\* the increment applied twice
handleNextPageTwice ==
  IF Truthy(data) /\ offset + limit < data.total THEN offset + 2 * limit ELSE offset

\* if (data && offset + limit < data.total) setOffset(offset + limit)
handleNextPage ==
  IF Truthy(data) /\ offset + limit < data.total THEN offset + limit ELSE offset

None == [kind |-> "absent"]
\* the component without its isLoading early return
RenderNoLoading ==
  IF isError
    THEN [view |-> "failed", message |-> "", banner |-> error,
          header |-> None, list |-> None, buttons |-> {}, disabled |-> {}]
  ELSE [view |-> "succeeded", message |-> "", banner |-> NoError,
        header |-> data, list |-> data,
        buttons |-> {"Previous", "Next"},
        disabled |-> (IF PrevDisabled THEN {"Previous"} ELSE {})
                       \cup (IF NextDisabled THEN {"Next"} ELSE {})]

\* the error banner rendered above the list instead of in its place
RenderBannerAboveList ==
  IF isLoading
    THEN [view |-> "pending", message |-> "Loading player data...",
          banner |-> NoError, header |-> None, list |-> None,
          buttons |-> {}, disabled |-> {}]
  ELSE [view |-> IF isError THEN "failed" ELSE "succeeded", message |-> "",
        banner |-> IF isError THEN error ELSE NoError,
        header |-> data, list |-> data,
        buttons |-> {"Previous", "Next"},
        disabled |-> (IF PrevDisabled THEN {"Previous"} ELSE {})
                       \cup (IF NextDisabled THEN {"Next"} ELSE {})]

\* what the component returns: the loading message, or the error banner, or
\* the header, the list and the two buttons with their disabled attributes
Render ==
  IF isLoading
    THEN [view |-> "pending", message |-> "Loading player data...",
          banner |-> NoError, header |-> None, list |-> None,
          buttons |-> {}, disabled |-> {}]
  ELSE IF isError
    THEN [view |-> "failed", message |-> "", banner |-> error,
          header |-> None, list |-> None, buttons |-> {}, disabled |-> {}]
  ELSE [view |-> "succeeded", message |-> "", banner |-> NoError,
        header |-> data, list |-> data,
        buttons |-> {"Previous", "Next"},
        disabled |-> (IF PrevDisabled THEN {"Previous"} ELSE {})
                       \cup (IF NextDisabled THEN {"Next"} ELSE {})]

\* ------------------------------------------------ player-stats calls
\* strings are sequences of characters; these are the characters of names
Chars == {"a", "'", " ", "/", "%", "2"}
\* the characters encodeURIComponent leaves as they are: letters, digits
\* and - _ . ! ~ * ' ( )
Unreserved == {"a", "2", "0", "5", "F", "'"}
\* the two hex digits of the UTF-8 code of a character that is escaped
HexCode(c) ==
  CASE c = " " -> <<"2", "0">>
    [] c = "/" -> <<"2", "F">>
    [] c = "%" -> <<"2", "5">>

\* the name put into the path as it is
encodeURIComponentRaw(str) == str

RECURSIVE encodeURIComponent(_)
\* encodeURIComponent(str)
encodeURIComponent(str) ==
  IF str = << >> THEN << >>
  ELSE (IF Head(str) \in Unreserved
          THEN <<Head(str)>>
          ELSE <<"%">> \o HexCode(Head(str)))
       \o encodeURIComponent(Tail(str))

URIError == <<"URIError">>
RECURSIVE decodeURIComponent(_)
\* decodeURIComponent(str), the inverse the server applies to a path segment
decodeURIComponent(str) ==
  IF str = << >> THEN << >>
  ELSE IF Head(str) # "%"
    THEN LET rest == decodeURIComponent(Tail(str))
         IN  IF rest = URIError THEN URIError ELSE <<Head(str)>> \o rest
  ELSE IF Len(str) < 3 THEN URIError
  ELSE LET hex == SubSeq(str, 2, 3)
           escaped == {c \in Chars \ Unreserved : HexCode(c) = hex}
           rest == decodeURIComponent(SubSeq(str, 4, Len(str)))
       IN  IF escaped = {} \/ rest = URIError THEN URIError
           ELSE <<CHOOSE c \in escaped : TRUE>> \o rest

\* the values of an optional string argument
Undefined == [type |-> "undefined"]
Str(v) == [type |-> "string", value |-> v]
\* JavaScript truthiness of an optional string: undefined and "" are falsy
TruthyString(a) == a.type = "string" /\ a.value # ""

RECURSIVE SeqsUpTo(_, _)
SeqsUpTo(S, n) ==
  IF n = 0 THEN {<< >>}
  ELSE LET shorter == SeqsUpTo(S, n - 1)
       IN  shorter \cup {<<c>> \o t : c \in S, t \in {u \in shorter : Len(u) = n - 1}}

PlayerNames == SeqsUpTo(Chars, MaxNameLen)
SeasonIds == {Undefined, Str(""), Str("2023-24"), Str("22023")}

\* season_id forwarded whatever seasonId is
getPlayerStatsAlways(playerName, seasonId) ==
  [path |-> [prefix |-> "/players/", segment |-> encodeURIComponent(playerName),
             suffix |-> "/stats"],
   params |-> {<<"season_id",
                 IF seasonId.type = "string" THEN seasonId.value ELSE "undefined">>}]

\* playersApi.getPlayerStats(playerName, seasonId): the request given to
\* api.get, the path as the parts of its template literal
getPlayerStats(playerName, seasonId) ==
  [path |-> [prefix |-> "/players/", segment |-> encodeURIComponent(playerName),
             suffix |-> "/stats"],
   params |-> IF TruthyString(seasonId)
                THEN {<<"season_id", seasonId.value>>} ELSE {}]

\* playersApi.getPlayerCareerStats(playerName)
getPlayerCareerStats(playerName) ==
  [path |-> [prefix |-> "/players/", segment |-> encodeURIComponent(playerName),
             suffix |-> "/career_stats"],
   params |-> {}]

NoCall == [fn |-> "none", playerName |-> << >>, seasonId |-> Undefined]
NoRequest == [path |-> [prefix |-> "", segment |-> << >>, suffix |-> ""],
              params |-> {}]

CallGetPlayerStats ==
  \E name \in PlayerNames : \E season \in SeasonIds :
    /\ call' = [fn |-> "getPlayerStats", playerName |-> name, seasonId |-> season]
    /\ sent' = getPlayerStats(name, season)
    /\ UNCHANGED listVars

CallGetPlayerCareerStats ==
  \E name \in PlayerNames :
    /\ call' = [fn |-> "getPlayerCareerStats", playerName |-> name,
                seasonId |-> Undefined]
    /\ sent' = getPlayerCareerStats(name)
    /\ UNCHANGED listVars


\* ------------------------------------------------ observer and fetch
\* the last operation: its name, the key it concerned, the offset before a
\* click, and the number of transport attempts of a fetch that ended
NoClick == [op |-> "none", before |-> 0]
Event(op, k, before, n) ==
  [op |-> op, key |-> k, before |-> before, attempts |-> n, prior |-> NoClick]
\* a click also records the click made before it
ClickEvent(op, k, before) ==
  [op |-> op, key |-> k, before |-> before, attempts |-> 0, prior |-> lastClick]

\* The observer leaves query `old` and subscribes to query `new`, which is
\* built when absent and fetched on mount (staleTime 0: always stale).  A
\* query left while fetching has its retry cancelled; a fetch asked of a
\* fetching query continues that fetch.
Subscribe(old, new, o) ==
  LET left == IF old # new /\ retryer[old].phase # "none"
                THEN [retryer EXCEPT ![old].cancelled = TRUE]
                ELSE retryer
      q == cache[new]
  IN  IF Deduped(q)
        THEN /\ retryer' = [left EXCEPT ![new].cancelled = FALSE]
             /\ UNCHANGED <<cache, inflight, attempts>>
        ELSE /\ cache' = [cache EXCEPT ![new] = FetchState(q)]
             /\ retryer' = [left EXCEPT ![new] =
                              [phase |-> "attempt", cancelled |-> FALSE]]
             /\ inflight' = inflight (+) SetToBag({queryFn(new, limit, o)})
             /\ attempts' = [attempts EXCEPT ![new] = 1]

\* first mount: useState(initialOffset) and the first fetch
Mount ==
  /\ failure \in ErrorMessages
  /\ offset = initialOffset
  /\ LET k == queryKey(limit, initialOffset)
     IN  /\ cache = [x \in Keys |-> IF x = k THEN FetchState(NoQuery) ELSE NoQuery]
         /\ retryer = [x \in Keys |->
                         IF x = k THEN [phase |-> "attempt", cancelled |-> FALSE]
                                  ELSE NoRetryer]
         /\ inflight = SetToBag({queryFn(k, limit, initialOffset)})
         /\ attempts = [x \in Keys |-> IF x = k THEN 1 ELSE 0]
         /\ lastEvent = Event("mount", k, initialOffset, 0)
  /\ lastResolved = [x \in Keys |-> None]
  /\ lastClick = NoClick
  /\ call = NoCall
  /\ sent = NoRequest

Init ==
  /\ limit \in Limits
  /\ initialOffset \in InitialOffsets
  /\ Mount

\* setOffset(o): a new value re-renders with the new key; the same value
\* is a no-op
SetOffset(o) ==
  /\ offset' = o
  /\ IF o = offset
       THEN UNCHANGED <<cache, retryer, inflight, attempts>>
       ELSE Subscribe(queryKey(limit, offset), queryKey(limit, o), o)

\* a click on the Next button (rendered, and enabled, in the succeeded view)
ClickNext ==
  /\ "Next" \in Render.buttons \ Render.disabled
  /\ SetOffset(handleNextPage)
  /\ lastEvent' = ClickEvent("next", queryKey(limit, offset), offset)
  /\ lastClick' = [op |-> "next", before |-> offset]
  /\ UNCHANGED <<props, lastResolved, apiVars>>

\* a click on the Previous button
ClickPrev ==
  /\ "Previous" \in Render.buttons \ Render.disabled
  /\ SetOffset(handlePrevPage)
  /\ lastEvent' = ClickEvent("prev", queryKey(limit, offset), offset)
  /\ lastClick' = [op |-> "prev", before |-> offset]
  /\ UNCHANGED <<props, lastResolved, apiVars>>

\* the query a resolved transport attempt belongs to
ResolvedKey(r) == r.key

\* api.get resolves: response.data becomes the query's data
AttemptSucceeds ==
  \E r \in BagToSet(inflight) : \E body \in Bodies(r.request.params) :
    LET k == ResolvedKey(r) IN
    /\ inflight' = inflight (-) SetToBag({r})
    /\ cache' = [cache EXCEPT ![k] = SuccessState(cache[k], body)]
    /\ retryer' = [retryer EXCEPT ![k] = NoRetryer]
    /\ lastResolved' = [lastResolved EXCEPT ![r.key] = body]
    /\ attempts' = [attempts EXCEPT ![k] = 0]
    /\ lastEvent' = Event("success", k, offset, attempts[k])
    /\ UNCHANGED <<props, offset, lastClick, apiVars>>

\* api.get rejects: the retryer schedules the retry, or the fetch fails
AttemptFails ==
  \E r \in BagToSet(inflight) :
    LET k == ResolvedKey(r)
        msg == failure
    IN
    /\ inflight' = inflight (-) SetToBag({r})
    /\ IF ShouldRetry(cache[k], retryer[k])
         THEN /\ cache' = [cache EXCEPT ![k].failureCount = @ + 1,
                                        ![k].failureReason = msg]
              /\ retryer' = [retryer EXCEPT ![k].phase = "sleep"]
              /\ lastEvent' = Event("retry", k, offset, attempts[k])
              /\ UNCHANGED <<lastResolved, attempts>>
         ELSE /\ cache' = [cache EXCEPT ![k] = ErrorState(cache[k], msg)]
              /\ retryer' = [retryer EXCEPT ![k] = NoRetryer]
              /\ UNCHANGED lastResolved
              /\ attempts' = [attempts EXCEPT ![k] = 0]
              /\ lastEvent' = Event(IF cache[k].failureCount < Retry THEN "cancelled" ELSE "failed",
                                    k, offset, attempts[k])
    /\ UNCHANGED <<props, offset, lastClick, apiVars>>

\* the retry delay elapses: the next attempt starts, unless the retry was
\* cancelled meanwhile, and then the fetch fails with the first error
RetryTimer ==
  \E k \in Keys :
    /\ retryer[k].phase = "sleep"
    /\ IF retryer[k].cancelled
         THEN /\ cache' = [cache EXCEPT ![k] =
                             ErrorState(cache[k], cache[k].failureReason)]
              /\ retryer' = [retryer EXCEPT ![k] = NoRetryer]
              /\ UNCHANGED lastResolved
              /\ attempts' = [attempts EXCEPT ![k] = 0]
              /\ lastEvent' = Event("cancelled", k, offset, attempts[k])
              /\ UNCHANGED inflight
         ELSE /\ retryer' = [retryer EXCEPT ![k].phase = "attempt"]
              /\ inflight' = inflight (+) SetToBag({queryFn(k, k[2], k[3])})
              /\ attempts' = [attempts EXCEPT ![k] = @ + 1]
              /\ lastEvent' = Event("attempt", k, offset, attempts[k] + 1)
              /\ UNCHANGED <<cache, lastResolved>>
    /\ UNCHANGED <<props, offset, lastClick, apiVars>>

\* an idle query without observer is removed from the cache (gcTime)
GarbageCollect ==
  \E k \in Keys :
    /\ k # queryKey(limit, offset)
    /\ cache[k].status # "none"
    /\ cache[k].fetchStatus = "idle"
    /\ cache' = [cache EXCEPT ![k] = NoQuery]
    /\ lastResolved' = [lastResolved EXCEPT ![k] = None]
    /\ lastEvent' = Event("gc", k, offset, 0)
    /\ UNCHANGED <<props, offset, retryer, inflight, attempts, lastClick, apiVars>>

Next ==
  \/ ClickNext
  \/ ClickPrev
  \/ AttemptSucceeds
  \/ AttemptFails
  \/ RetryTimer
  \/ GarbageCollect

Spec == Init /\ [][Next]_vars

\* the list as the application shell mounts it, without initialOffset
ShellInit ==
  /\ Init
  /\ initialOffset = 0

\* the transport answers every attempt, and the retry delay elapses
LiveSpec ==
  /\ ShellInit
  /\ [][Next]_vars
  /\ WF_vars(AttemptSucceeds \/ AttemptFails)
  /\ WF_vars(RetryTimer)

\* the list mounted one page and one row into the data: Previous then
\* leaves the rows of the initial page grid
DeepInit ==
  /\ limit \in Limits \ {0}
  /\ initialOffset = limit + 1
  /\ Mount

DeepSpec == DeepInit /\ [][Next]_vars

\* the player-stats functions called on their own, beside a list that has
\* just been mounted
ApiInit ==
  /\ Init
  /\ limit = 0
  /\ initialOffset = 0
  /\ failure = "Network Error"

ApiNext ==
  \/ CallGetPlayerStats
  \/ CallGetPlayerCareerStats

ApiSpec == ApiInit /\ [][ApiNext]_vars

\* ------------------------------------------------------------ claims
currentKey == queryKey(limit, offset)
Clicks == {"next", "prev"}

\* C1: the succeeded view shows the latest response resolved for the current
\* (limit, offset) key, and that response is the answer to a request for
\* exactly this limit and offset; a response resolved for another key is
\* never what is displayed.
C1_ShowsLatestOfCurrentKey ==
  Render.view = "succeeded" =>
    /\ Truthy(Render.list)
    /\ Render.list = lastResolved[currentKey]
    /\ Render.list.offset = offset
    /\ Render.list.limit = limit

\* a response for a superseded key resolved while another page is displayed
C1_Witness ==
  /\ lastEvent.op = "success"
  /\ lastEvent.key # currentKey
  /\ Render.view = "succeeded"
  /\ lastResolved[lastEvent.key] # Render.list

\* C2: offset >= 0 in every reachable state, for every limit >= 0 and
\* initialOffset >= 0.
C2_OffsetNonNegative == offset >= 0

\* Previous clicked where offset - limit is negative
C2_Witness ==
  /\ lastEvent.op = "prev"
  /\ lastEvent.before - limit < 0
  /\ offset = 0

\* C3 as stated: once a pagination action has moved offset, every successful
\* response displayed for the current key has total > offset.
C3_OffsetBelowTotal ==
  (offset # initialOffset /\ Render.view = "succeeded") =>
    (0 <= offset /\ offset < Render.list.total)

\* C3 amended: a Next click moves offset only below the total of the response
\* displayed at the click, a Previous click never raises offset, and offset
\* never goes below 0 (offset is not clamped again when a later response
\* reports a smaller total).
C3_ClickStaysBelowShownTotal ==
  /\ offset >= 0
  /\ lastEvent.op = "next" =>
       /\ Truthy(cache[lastEvent.key].data)
       /\ offset < cache[lastEvent.key].data.total
  /\ lastEvent.op = "prev" => offset <= lastEvent.before

\* Next clicked onto a new page
C3_Witness ==
  /\ lastEvent.op = "next"
  /\ offset > lastEvent.before
  /\ offset = cache[lastEvent.key].data.total - 1

\* C4: for limit > 0, in the succeeded view with 0 <= offset < total,
\* Previous is disabled iff offset = 0 and Next is disabled iff
\* offset + limit >= total.
C4_ButtonsDisabled ==
  (/\ limit > 0
   /\ Render.view = "succeeded"
   /\ Truthy(Render.list)
   /\ 0 <= offset
   /\ offset < Render.list.total) =>
    /\ "Previous" \in Render.disabled <=> offset = 0
    /\ "Next" \in Render.disabled <=> offset + limit >= Render.list.total

\* the last page of several: Previous enabled, Next disabled
C4_Witness ==
  /\ limit > 0
  /\ Render.view = "succeeded"
  /\ offset > 0
  /\ offset < Render.list.total
  /\ Render.disabled = {"Next"}

\* C5 as stated: a click on the enabled Next button sets offset to
\* offset + limit, strictly above the prior offset.
C5_NextStrictlyIncreases ==
  lastEvent.op = "next" =>
    /\ offset = lastEvent.before + limit
    /\ offset > lastEvent.before

\* C5 amended: a click on the enabled Next button sets offset to exactly
\* offset + limit, never below the prior offset, and strictly above it when
\* limit > 0 (with limit = 0 the click leaves offset where it is).
C5_NextAddsLimit ==
  lastEvent.op = "next" =>
    /\ offset = lastEvent.before + limit
    /\ offset >= lastEvent.before
    /\ limit > 0 => offset > lastEvent.before

\* Next clicked with a positive limit
C5_Witness ==
  /\ lastEvent.op = "next"
  /\ limit > 0
  /\ offset = lastEvent.before + limit

\* C6: a click on the enabled Previous button sets offset to
\* max(0, offset - limit): offset - limit when offset >= limit, else 0.
C6_PrevClampsAtZero ==
  lastEvent.op = "prev" =>
    /\ lastEvent.before >= limit => offset = lastEvent.before - limit
    /\ lastEvent.before < limit => offset = 0
    /\ offset >= 0

\* Previous clicked with 0 < offset < limit
C6_Witness ==
  /\ lastEvent.op = "prev"
  /\ lastEvent.before > 0
  /\ lastEvent.before < limit
  /\ offset = 0

\* C7: exactly one of the three views is rendered, the one of the status of
\* the current key's query; list, header and buttons are present in the
\* succeeded view alone.
C7_OneViewByStatus ==
  /\ query.status \in {"pending", "error", "success"}
  /\ query.status = "pending" <=> Render.view = "pending"
  /\ query.status = "error" <=> Render.view = "failed"
  /\ query.status = "success" <=> Render.view = "succeeded"
  /\ Render.view = "pending" =>
       /\ Render.message # ""
       /\ Render.banner = NoError
       /\ Render.list = None /\ Render.header = None /\ Render.buttons = {}
  /\ Render.view = "failed" =>
       /\ Render.message = ""
       /\ Render.banner # NoError
       /\ Render.list = None /\ Render.header = None /\ Render.buttons = {}
  /\ Render.view = "succeeded" =>
       /\ Render.message = ""
       /\ Render.banner = NoError
       /\ Render.list # None /\ Render.header # None
       /\ Render.buttons = {"Previous", "Next"}

\* a click has just replaced the succeeded view by the loading view
C7_Witness ==
  /\ lastEvent.op \in Clicks
  /\ offset # lastEvent.before
  /\ Render.view = "pending"

\* C8: when the fetch of the current key ends in failure the view is the
\* failed view: the banner carries the error's message, and neither a list
\* nor a button is shown, whatever response the query still holds.
C8_FailedShowsBannerOnly ==
  (lastEvent.op \in {"failed", "cancelled"} /\ lastEvent.key = currentKey) =>
    /\ Render.view = "failed"
    /\ Render.banner = failure
    /\ Render.list = None
    /\ Render.header = None
    /\ Render.buttons = {}

\* the refetch of a page whose earlier response is still cached has failed
C8_Witness ==
  /\ lastEvent.op = "failed"
  /\ lastEvent.key = currentKey
  /\ Truthy(query.data)

\* C9 as stated: a fetch makes at most two transport attempts and fails only
\* after both have failed; a success on either attempt yields succeeded.
C9_FailsOnlyAfterRetry ==
  /\ \A k \in Keys : attempts[k] <= Retry + 1
  /\ lastEvent.op \in {"failed", "cancelled"} =>
       /\ lastEvent.attempts = Retry + 1
       /\ cache[lastEvent.key].status = "error"
  /\ lastEvent.op = "success" => cache[lastEvent.key].status = "success"

\* C9 amended: a fetch makes at most two transport attempts; a success on
\* either attempt yields succeeded; the fetch of a key that stays current
\* fails only after both attempts have failed, and the fetch of a key that
\* was superseded meanwhile fails after its first failed attempt, its retry
\* being cancelled.
C9_FailsAfterRetryUnlessSuperseded ==
  /\ \A k \in Keys : attempts[k] <= 2
  /\ lastEvent.op = "failed" =>
       /\ lastEvent.attempts = 2
       /\ cache[lastEvent.key].status = "error"
  /\ lastEvent.op = "cancelled" =>
       /\ lastEvent.attempts = 1
       /\ lastEvent.key # currentKey
       /\ cache[lastEvent.key].status = "error"
  /\ lastEvent.op = "success" =>
       /\ lastEvent.attempts \in {1, 2}
       /\ cache[lastEvent.key].status = "success"

\* the fetch of the displayed page has failed on its retry
C9_Witness ==
  /\ lastEvent.op = "failed"
  /\ lastEvent.key = currentKey
  /\ lastEvent.attempts = 2

\* C10: after the first mount and after every change of the key the query of
\* the current key is being fetched, by requests that carry exactly the
\* key's limit and offset, and no key ever has two requests in flight.
C10_OneRequestPerKey ==
  /\ \A r \in BagToSet(inflight) :
       /\ CopiesIn(r, inflight) = 1
       /\ r.request = [path |-> "/players",
                       params |-> [limit |-> r.key[2], offset |-> r.key[3]]]
       /\ \A r2 \in BagToSet(inflight) : r2.key = r.key => r2 = r
  /\ (lastEvent.op = "mount"
        \/ (lastEvent.op \in Clicks /\ offset # lastEvent.before)) =>
       /\ query.fetchStatus = "fetching"
       /\ \/ retryer[currentKey].phase = "sleep"
          \/ \E r \in BagToSet(inflight) :
               /\ r.key = currentKey
               /\ r.request.params = [limit |-> limit, offset |-> offset]

\* the user is back on a key whose fetch, begun on an earlier visit, is
\* still in flight on its second attempt
C10_Witness ==
  /\ lastEvent.op \in Clicks
  /\ offset # lastEvent.before
  /\ attempts[currentKey] = 2
  /\ \E r \in BagToSet(inflight) : r.key = currentKey

\* C11 as stated: whenever the displayed response has total = 0, both
\* buttons are disabled and the header shows count 0 of total 0.
C11_TotalZeroDisablesBoth ==
  (Render.view = "succeeded" /\ Render.list.total = 0) =>
    /\ Render.disabled = {"Previous", "Next"}
    /\ Render.header.count = 0
    /\ Render.header.total = 0

\* C11 amended: whenever the displayed response has total = 0, Next is
\* disabled and the header shows count 0 of total 0; Previous is disabled
\* exactly when offset = 0, so both buttons are disabled on the first page.
C11_TotalZeroDisablesNext ==
  (Render.view = "succeeded" /\ Render.list.total = 0) =>
    /\ "Next" \in Render.disabled
    /\ "Previous" \in Render.disabled <=> offset = 0
    /\ Render.header.count = 0
    /\ Render.header.total = 0

\* an empty collection displayed on the first page
C11_Witness ==
  /\ Render.view = "succeeded"
  /\ Render.list.total = 0
  /\ offset = 0
  /\ Render.disabled = {"Previous", "Next"}

Elems(str) == {str[i] : i \in 1..Len(str)}

\* C12 as stated: getPlayerStats forwards season_id = seasonId for every
\* string seasonId passed, and sends no season_id when none is passed.
C12_SeasonForwardedForEveryString ==
  call.fn = "getPlayerStats" =>
    /\ call.seasonId.type = "string" =>
         sent.params = {<<"season_id", call.seasonId.value>>}
    /\ call.seasonId.type = "undefined" => sent.params = {}

\* C12 amended: getPlayerStats forwards season_id = seasonId for every
\* non-empty string seasonId, and sends no season_id parameter when seasonId
\* is not passed or is the empty string.
C12_SeasonForwardedWhenTruthy ==
  call.fn = "getPlayerStats" =>
    /\ (call.seasonId.type = "string" /\ call.seasonId.value # "") =>
         sent.params = {<<"season_id", call.seasonId.value>>}
    /\ (call.seasonId.type = "undefined" \/ call.seasonId = Str("")) =>
         sent.params = {}

\* a season was passed and forwarded
C12_Witness ==
  /\ call.fn = "getPlayerStats"
  /\ call.seasonId = Str("2023-24")
  /\ sent.params = {<<"season_id", "2023-24">>}

\* C13 as stated: the path segment of both player functions holds no raw
\* space and no raw apostrophe, and decodes to the name.
C13_NoRawSpaceOrApostrophe ==
  call.fn \in {"getPlayerStats", "getPlayerCareerStats"} =>
    /\ " " \notin Elems(sent.path.segment)
    /\ "'" \notin Elems(sent.path.segment)
    /\ decodeURIComponent(sent.path.segment) = call.playerName

\* C13 amended: the path segment of both player functions holds no raw
\* space and no raw slash, every character in it is unreserved or belongs to
\* a %XX escape, and it decodes to the name; an apostrophe is unreserved and
\* stays as it is.
C13_SegmentEscapedExceptApostrophe ==
  call.fn \in {"getPlayerStats", "getPlayerCareerStats"} =>
    /\ " " \notin Elems(sent.path.segment)
    /\ "/" \notin Elems(sent.path.segment)
    /\ Elems(sent.path.segment) \subseteq Unreserved \cup {"%"}
    /\ "'" \in Elems(call.playerName) <=> "'" \in Elems(sent.path.segment)
    /\ decodeURIComponent(sent.path.segment) = call.playerName
    /\ sent.path.prefix = "/players/"
    /\ sent.path.suffix =
         (IF call.fn = "getPlayerStats" THEN "/stats" ELSE "/career_stats")

\* a name with a space and an apostrophe was sent
C13_Witness ==
  /\ call.fn = "getPlayerCareerStats"
  /\ call.playerName = <<"'", " ">>
  /\ sent.path.segment = <<"'", "%", "2", "0">>

\* C14 as stated: with limit = 0 the next-page check is true in every
\* succeeded state unless total is 0.
C14_ZeroLimitNextUnlessEmpty ==
  (limit = 0 /\ Render.view = "succeeded") =>
    ("Next" \notin Render.disabled <=> Render.list.total # 0)

\* C14 amended: with limit = 0 the next-page check is offset < total: it is
\* true in a succeeded state exactly when offset < total, hence at offset 0
\* unless total is 0, and false at an offset >= total.
C14_ZeroLimitNextIffBelowTotal ==
  (limit = 0 /\ Render.view = "succeeded") =>
    /\ "Next" \notin Render.disabled <=> offset < Render.list.total
    /\ offset = 0 => ("Next" \notin Render.disabled <=> Render.list.total # 0)
    /\ handleNextPage = offset

\* limit 0 and a non-empty collection: Next enabled
C14_Witness ==
  /\ limit = 0
  /\ Render.view = "succeeded"
  /\ Render.list.total > offset
  /\ "Next" \notin Render.disabled

\* C15: the Next handler acts exactly where the Next button is enabled: it
\* leaves offset unchanged where the response is absent or
\* offset + limit >= total, and sets offset + limit everywhere else.
C15_HandlerGuardMatchesButton ==
  /\ NextDisabled => handleNextPage = offset
  /\ ~NextDisabled => handleNextPage = offset + limit
  /\ Render.view = "succeeded" => ("Next" \in Render.disabled <=> NextDisabled)
  /\ lastEvent.op = "next" => offset = lastEvent.before + limit

\* the boundary of the guard: the last page ends exactly at total
C15_Witness ==
  /\ Render.view = "succeeded"
  /\ limit > 0
  /\ offset + limit = data.total
  /\ "Next" \in Render.disabled
  /\ handleNextPage = offset

\* C16: offset changes only in a step that is a Next or Previous click made
\* in the succeeded view of the current key; no fetch event (attempt,
\* retry, success, failure, resolution for a superseded key, removal from
\* the cache) changes it, and nothing changes it while the view is pending
\* or failed.
C16_OffsetChangesOnlyByClick ==
  [][offset' # offset =>
       /\ lastEvent'.op \in Clicks
       /\ lastEvent'.before = offset
       /\ query.status = "success"
       /\ Render.view = "succeeded"]_vars

\* a click made on a succeeded page has moved offset
C16_Witness ==
  /\ lastEvent.op \in Clicks
  /\ offset # lastEvent.before
  /\ cache[lastEvent.key].status = "success"

\* C19: for limit > 0, a Next click followed, once the new page is
\* displayed, by a Previous click brings offset back to its value before
\* the Next click.
C19_NextThenPrevReturns ==
  (/\ limit > 0
   /\ lastEvent.op = "prev"
   /\ lastEvent.prior.op = "next") =>
    /\ lastEvent.before = lastEvent.prior.before + limit
    /\ offset = lastEvent.prior.before

\* Next from the first page, then Previous from the page it led to
C19_Witness ==
  /\ limit > 0
  /\ lastEvent.op = "prev"
  /\ lastEvent.prior.op = "next"
  /\ lastEvent.before > lastEvent.prior.before
  /\ offset = lastEvent.prior.before

C17_LoadingEnds ==
  (Render.view = "pending") ~> (Render.view \in {"succeeded", "failed"})

\* the page a click led to has stopped loading after its retry
C17_Witness ==
  /\ lastClick.op \in Clicks
  /\ lastClick.before # offset
  /\ lastEvent.key = currentKey
  /\ lastEvent.op \in {"success", "failed"}
  /\ lastEvent.attempts = 1 + Retry
  /\ Render.view # "pending"

====
